---- MODULE Spec2Model ----
(***************************************************************************)
(* Model of the Sukhrani Enterprises invoice application:                  *)
(*   src/invoice_app.py    recalculate_totals, apply_price_adjustments,    *)
(*                         format_tax_percentage, generate_pdf             *)
(*   src/streamlit_app.py  the Streamlit script main(): one action per     *)
(*                         script run triggered by a button               *)
(*                                                                         *)
(* Three specifications: Spec is one session on the Generate Invoice and   *)
(* Manage SKUs pages; SpecData is the reference-data pages and the sidebar *)
(* with two sessions in the process; SpecUnit calls the functions of       *)
(* src/invoice_app.py directly.                                            *)
(*                                                                         *)
(* Money and tax rates are Python floats (IEEE-754 binary64).  They are    *)
(* modelled bit-exactly: a float is [m, e] with value m * 2^e, where m is  *)
(* a 53-bit natural kept as a little-endian sequence of 15-bit limbs (TLC  *)
(* integers are 32 bits wide) and every operation rounds to nearest, ties  *)
(* to even, as the hardware does.  Only non-negative finite normal values  *)
(* occur in the program's inputs that are enumerated here.                 *)
(***************************************************************************)
EXTENDS Integers, Sequences, FiniteSets, TLC

(***************************************************************************)
(* Natural numbers of arbitrary size: little-endian limbs, no leading      *)
(* (high) zero limb, zero is the empty sequence.                           *)
(***************************************************************************)
LimbBits == 15
Base == 2^LimbBits

RECURSIVE BNorm(_)
BNorm(a) ==
  IF a = <<>> THEN <<>>
  ELSE IF a[Len(a)] = 0 THEN BNorm(SubSeq(a, 1, Len(a) - 1)) ELSE a

RECURSIVE BFromInt(_)
BFromInt(n) == IF n = 0 THEN <<>> ELSE <<n % Base>> \o BFromInt(n \div Base)

RECURSIVE BToInt(_)
BToInt(a) == IF a = <<>> THEN 0 ELSE Head(a) + Base * BToInt(Tail(a))

RECURSIVE BAddC(_, _, _)
BAddC(a, b, c) ==
  IF a = <<>> /\ b = <<>> THEN (IF c = 0 THEN <<>> ELSE <<c>>)
  ELSE LET x == IF a = <<>> THEN 0 ELSE Head(a)
           y == IF b = <<>> THEN 0 ELSE Head(b)
           s == x + y + c
       IN  <<s % Base>> \o BAddC(IF a = <<>> THEN <<>> ELSE Tail(a),
                                 IF b = <<>> THEN <<>> ELSE Tail(b),
                                 s \div Base)

BAdd(a, b) == BNorm(BAddC(a, b, 0))

RECURSIVE BMulSmallC(_, _, _)
BMulSmallC(a, k, c) ==
  IF a = <<>> THEN (IF c = 0 THEN <<>> ELSE <<c>>)
  ELSE LET p == Head(a) * k + c
       IN  <<p % Base>> \o BMulSmallC(Tail(a), k, p \div Base)

\* a * k for a limb-sized k (0 <= k < Base)
BMulSmall(a, k) == BNorm(BMulSmallC(a, k, 0))

RECURSIVE BMul(_, _)
BMul(a, b) ==
  IF a = <<>> \/ b = <<>> THEN <<>>
  ELSE BAdd(BMulSmall(a, Head(b)), BNorm(<<0>> \o BMul(a, Tail(b))))

\* quotient limbs and remainder of the limbs i..Len(a) of a by d (0 < d <= Base)
RECURSIVE BDivRem(_, _, _)
BDivRem(a, d, i) ==
  IF i > Len(a) THEN [q |-> <<>>, r |-> 0]
  ELSE LET hi  == BDivRem(a, d, i + 1)
           cur == hi.r * Base + a[i]
       IN  [q |-> <<cur \div d>> \o hi.q, r |-> cur % d]

BDiv(a, d) == BNorm(BDivRem(a, d, 1).q)
BMod(a, d) == BDivRem(a, d, 1).r

RECURSIVE Zeros(_)
Zeros(n) == IF n = 0 THEN <<>> ELSE <<0>> \o Zeros(n - 1)

\* a * 2^k
BShl(a, k) == BMulSmall(Zeros(k \div LimbBits) \o a, 2^(k % LimbBits))

\* floor(a / 2^k)
BShr(a, k) ==
  IF k \div LimbBits >= Len(a) THEN <<>>
  ELSE BDiv(SubSeq(a, (k \div LimbBits) + 1, Len(a)), 2^(k % LimbBits))

\* bit i (0 = least significant) of a
BBit(a, i) ==
  LET j == (i \div LimbBits) + 1
  IN  IF j > Len(a) THEN 0 ELSE (a[j] \div 2^(i % LimbBits)) % 2

\* a mod 2^n # 0
BLowNonzero(a, n) ==
  \E j \in 1..Len(a) :
     \/ j <= n \div LimbBits /\ a[j] # 0
     \/ j = (n \div LimbBits) + 1 /\ a[j] % 2^(n % LimbBits) # 0

RECURSIVE BitLenInt(_)
BitLenInt(n) == IF n = 0 THEN 0 ELSE 1 + BitLenInt(n \div 2)

BBitLen(a) ==
  IF a = <<>> THEN 0 ELSE LimbBits * (Len(a) - 1) + BitLenInt(a[Len(a)])

\* floor(a / 2^k) rounded to nearest, ties to even
BShrRoundEven(a, k) ==
  IF k = 0 THEN a
  ELSE LET q      == BShr(a, k)
           round  == BBit(a, k - 1) = 1
           sticky == BLowNonzero(a, k - 1)
           odd    == BBit(q, 0) = 1
       IN  IF round /\ (sticky \/ odd) THEN BAdd(q, <<1>>) ELSE q

\* a < b for naturals given by their limbs
BLess(a, b) ==
  \/ Len(a) < Len(b)
  \/ /\ Len(a) = Len(b)
     /\ \E i \in 1..Len(a) :
           /\ a[i] < b[i]
           /\ \A j \in (i + 1)..Len(a) : a[j] = b[j]

RECURSIVE BSubB(_, _, _)
BSubB(a, b, borrow) ==
  IF a = <<>> THEN <<>>
  ELSE LET y == IF b = <<>> THEN 0 ELSE Head(b)
           d == Head(a) - y - borrow
       IN  <<(d + Base) % Base>>
             \o BSubB(Tail(a), IF b = <<>> THEN <<>> ELSE Tail(b),
                      IF d < 0 THEN 1 ELSE 0)

\* a - b for a >= b
BSub(a, b) == BNorm(BSubB(a, b, 0))

\* limb j of c, 0 beyond its length
Limb(c, j) == IF j > Len(c) THEN 0 ELSE c[j]

\* The quotient digit floor(cur / b) for cur < b * Base and a divisor b whose
\* top limb is at least Base / 2: the estimate from the two top limbs is the
\* digit or exceeds it by at most 2.
BDivDigitFrom(cur, b, qhat) ==
  IF ~BLess(cur, BMulSmall(b, qhat)) THEN qhat
  ELSE IF ~BLess(cur, BMulSmall(b, qhat - 1)) THEN qhat - 1 ELSE qhat - 2

BDivDigit(cur, b) ==
  BDivDigitFrom(cur, b,
    IF (Limb(cur, Len(b) + 1) * Base + Limb(cur, Len(b))) \div b[Len(b)] >= Base
    THEN Base - 1
    ELSE (Limb(cur, Len(b) + 1) * Base + Limb(cur, Len(b))) \div b[Len(b)])

BDivBigOut(cur, hq, b, d) == [q |-> <<d>> \o hq, r |-> BSub(cur, BMulSmall(b, d))]
BDivBigStep(cur, hq, b) == BDivBigOut(cur, hq, b, BDivDigit(cur, b))
BDivBigNext(hi, limb, b) ==
  IF hi.r = <<>> THEN BDivBigStep(BNorm(<<limb>>), hi.q, b)
  ELSE BDivBigStep(<<limb>> \o hi.r, hi.q, b)

\* quotient limbs and remainder of the limbs i..Len(a) of a by b, for a
\* divisor b whose top limb is at least Base / 2
RECURSIVE BDivBig(_, _, _)
BDivBig(a, b, i) ==
  IF i > Len(a) THEN [q |-> <<>>, r |-> <<>>]
  ELSE BDivBigNext(BDivBig(a, b, i + 1), a[i], b)

(***************************************************************************)
(* Python float: binary64.  Canonical form: zero is [m = <<>>, e = 0];     *)
(* otherwise 2^52 <= m < 2^53, so equal values are equal records.          *)
(***************************************************************************)
MantBits == 53

FZero == [m |-> <<>>, e |-> 0]

\* the double nearest to m * 2^e (m any natural), ties to even
FRound(m, e) ==
  LET L == BBitLen(m)
  IN  IF L = 0 THEN FZero
      ELSE IF L <= MantBits
           THEN [m |-> BShl(m, MantBits - L), e |-> e - (MantBits - L)]
           ELSE LET q == BShrRoundEven(m, L - MantBits)
                IN  IF BBitLen(q) > MantBits
                    THEN [m |-> BShr(q, 1), e |-> e + (L - MantBits) + 1]
                    ELSE [m |-> q, e |-> e + (L - MantBits)]

\* float(n) for a Python int n >= 0
FFromInt(n) == FRound(BFromInt(n), 0)

\* a * b
FMul(a, b) == FRound(BMul(a.m, b.m), a.e + b.e)

\* a + b
FAdd(a, b) ==
  IF a.m = <<>> THEN b
  ELSE IF b.m = <<>> THEN a
  ELSE LET lo == IF a.e < b.e THEN a.e ELSE b.e
       IN  FRound(BAdd(BShl(a.m, a.e - lo), BShl(b.m, b.e - lo)), lo)

\* a < b
FLess(a, b) ==
  IF b.m = <<>> THEN FALSE
  ELSE IF a.m = <<>> THEN TRUE
  ELSE \/ a.e < b.e
       \/ a.e = b.e /\ \E i \in 1..Len(a.m) :
             /\ a.m[i] < b.m[i]
             /\ \A j \in (i + 1)..Len(a.m) : a.m[j] = b.m[j]

RECURSIVE TenPow(_)
TenPow(d) == IF d = 0 THEN 1 ELSE 10 * TenPow(d - 1)

\* The float a decimal literal or a typed decimal input n / 10^d denotes
\* (0 <= d <= 4): the correctly rounded quotient.  The quotient is taken
\* with GuardBits extra bits and a sticky bit for the remainder.
GuardBits == 70

FFromDecimal(n, d) ==
  LET dr == BDivRem(BShl(BFromInt(n), GuardBits), TenPow(d), 1)
      q  == BNorm(dr.q)
  IN  FRound(BAdd(BShl(q, 1), IF dr.r = 0 THEN <<>> ELSE <<1>>), 0 - GuardBits - 1)

\* a - b for a >= b
FSub(a, b) ==
  IF b.m = <<>> THEN a
  ELSE LET lo == IF a.e < b.e THEN a.e ELSE b.e
       IN  FRound(BSub(BShl(a.m, a.e - lo), BShl(b.m, b.e - lo)), lo)

\* a / b (b = 0 raises ZeroDivisionError): the quotient of the mantissas with GuardBits extra bits
\* and a sticky bit for the remainder, then rounded.  Both mantissas are
\* shifted so that the divisor fills its top limb.
DivShift == (LimbBits - (MantBits % LimbBits)) % LimbBits
FDivRound(dr, e) ==
  FRound(BAdd(BShl(BNorm(dr.q), 1), IF dr.r = <<>> THEN <<>> ELSE <<1>>), e)
FDiv(a, b) ==
  CASE b.m # <<>> ->
    IF a.m = <<>> THEN FZero
    ELSE FDivRound(BDivBig(BShl(a.m, GuardBits + DivShift), BShl(b.m, DivShift), 1),
                   a.e - b.e - GuardBits - 1)

\* int(x): truncation of a non-negative float, as a natural
FTrunc(x) == IF x.e >= 0 THEN BShl(x.m, x.e) ELSE BShr(x.m, 0 - x.e)

\* x == int(x)
FIsWhole(x) == x.e >= 0 \/ ~BLowNonzero(x.m, 0 - x.e)

\* round-half-even of x * 10^d to an integer: the digits "%.<d>f" prints
FScaledRound(x, d) ==
  LET n == BMul(x.m, BFromInt(TenPow(d)))
  IN  IF x.e >= 0 THEN BShl(n, x.e) ELSE BShrRoundEven(n, 0 - x.e)


\* Python's None, and a dictionary key that is absent
None == "None"

\* the empty first option of the "Select item to remove" selectbox
NoSelection == [number |-> 0, name |-> ""]

\* a decimal literal of the source, or a decimal typed into a number input
D(n, d) == FFromDecimal(n, d)

(***************************************************************************)
(* Text conversions.                                                       *)
(***************************************************************************)
TwoDigits(n) == IF n < 10 THEN "0" \o ToString(n) ELSE ToString(n)
ThreeDigits(n) ==
  IF n < 10 THEN "00" \o ToString(n)
  ELSE IF n < 100 THEN "0" \o ToString(n) ELSE ToString(n)

\* format(n, ",d"): thousands separators
RECURSIVE Grouped(_)
Grouped(n) ==
  IF n < 1000 THEN ToString(n)
  ELSE Grouped(n \div 1000) \o "," \o ThreeDigits(n % 1000)

\* f"{x:.2f}" of a non-negative float
Fixed2(x) ==
  LET q == FScaledRound(x, 2)
  IN  ToString(BToInt(BDiv(q, 100))) \o "." \o TwoDigits(BMod(q, 100))

(***************************************************************************)
(* src/invoice_app.py                                                      *)
(***************************************************************************)
DEFAULT_SKU_DATA ==
  [n \in {"Tomato Sauce", "Chilly Sauce", "Soya Sauce", "Vinegar",
          "Ganna Vinegar", "Jamun Vinegar", "Noodles", "PET Bottle",
          "PET Preform"} |->
     IF n \in {"Tomato Sauce", "Chilly Sauce", "Soya Sauce"}
     THEN [hsn |-> "2103", cgst |-> D(25, 3), sgst |-> D(25, 3),
           weights |-> <<"4.5 Kg", "650 mL", "5 L">>]
     ELSE IF n \in {"Vinegar", "Ganna Vinegar", "Jamun Vinegar"}
     THEN [hsn |-> "2209", cgst |-> D(9, 2), sgst |-> D(9, 2),
           weights |-> <<"650 mL", "4.5 Kg", "5 L">>]
     ELSE IF n = "Noodles"
     THEN [hsn |-> "1902", cgst |-> D(9, 2), sgst |-> D(9, 2),
           weights |-> <<"500 gm", "1 Kg">>]
     ELSE [hsn |-> "3923", cgst |-> D(9, 2), sgst |-> D(9, 2),
           weights |-> <<>>]]

DEFAULT_CUSTOMER_DATA ==
  [p \in {"Rudauli"} |->
     <<[name |-> "Prakash & Sons", id_type |-> "GSTN",
        id_value |-> "09AUHPP5426C1ZM"]>>]

DEFAULT_VEHICLE_DATA == [vehicles |-> <<>>]

\* sum(f(item) for item in items_list): a left fold that starts from 0
RECURSIVE SumOver(_, _, _)
SumOver(items_list, field, acc) ==
  IF items_list = <<>> THEN acc
  ELSE SumOver(Tail(items_list), field, FAdd(acc, Head(items_list)[field]))

\* What a call of recalculate_totals returns and what it leaves in the list
\* object it was given.
recalculate_totals_mutating(items_list) ==
  LET total_amount == SumOver(items_list, "amount", FZero)
      total_tax    == SumOver(items_list, "tax", FZero)
  IN  [ret |-> [amount |-> total_amount, tax |-> total_tax,
                grand_total |-> FAdd(total_amount, total_tax)],
       items_list |-> IF items_list = <<>> THEN <<>> ELSE Tail(items_list)]

recalculate_totals_total(items_list) ==
  LET total_amount == SumOver(items_list, "total", FZero)
      total_tax    == SumOver(items_list, "tax", FZero)
  IN  [ret |-> [amount |-> total_amount, tax |-> total_tax,
                grand_total |-> FAdd(total_amount, total_tax)],
       items_list |-> items_list]

recalculate_totals(items_list) ==
  LET total_amount == SumOver(items_list, "amount", FZero)
      total_tax    == SumOver(items_list, "tax", FZero)
  IN  [ret |-> [amount |-> total_amount, tax |-> total_tax,
                grand_total |-> FAdd(total_amount, total_tax)],
       items_list |-> items_list]

apply_price_adjustments_consuming(invoice_items) ==
  LET r == recalculate_totals_mutating(invoice_items)
  IN  [ret |-> <<r.items_list, r.ret, <<>>>>, invoice_items |-> r.items_list]

\* an adjustment that rewrites each line's total in the list it was given
apply_price_adjustments_repricing(invoice_items) ==
  LET r == recalculate_totals(invoice_items)
      repriced == [i \in 1..Len(invoice_items) |->
                     [invoice_items[i] EXCEPT !.total = invoice_items[i].amount]]
  IN  [ret |-> <<repriced, r.ret, <<>>>>, invoice_items |-> repriced]

\* an adjustment that hands the lines back last first
apply_price_adjustments_reordering(invoice_items) ==
  LET r == recalculate_totals(invoice_items)
      reordered == [i \in 1..Len(invoice_items) |->
                      invoice_items[Len(invoice_items) + 1 - i]]
  IN  [ret |-> <<reordered, r.ret, <<>>>>, invoice_items |-> invoice_items]

\* returns (invoice_items, totals, []): the same list object, not a copy
apply_price_adjustments(invoice_items) ==
  LET r == recalculate_totals(invoice_items)
  IN  [ret |-> <<r.items_list, r.ret, <<>>>>, invoice_items |-> r.items_list]

format_tax_percentage_round(decimal_rate) ==
  LET percentage == FMul(decimal_rate, FFromInt(100))
  IN  ToString(BToInt(FScaledRound(percentage, 0))) \o "%"

format_tax_percentage(decimal_rate) ==
  LET percentage == FMul(decimal_rate, FFromInt(100))
  IN  IF FIsWhole(percentage)
      THEN ToString(BToInt(FTrunc(percentage))) \o "%"
      ELSE Fixed2(percentage) \o "%"

(***************************************************************************)
(* generate_pdf(invoice_data, output_path), called with an output_path as  *)
(* the web application does.  Lengths are in hundredths of a point: the    *)
(* layout's floating-point arithmetic is replaced by fixed-point           *)
(* arithmetic, which keeps which drawing lands where on the page.          *)
(*                                                                         *)
(* The canvas state c is the sequence of blocks drawn so far, each with    *)
(* the y it was drawn at and, where the block stopped on an absent key,    *)
(* that key.  The canvas calls a block consists of are given by            *)
(* header_calls, billing_calls, table_calls and footer_calls.  reportlab   *)
(* draws at any coordinate, on or off the page, without an error.          *)
(***************************************************************************)
Pt == 10 * 10

PAGE_W == 59528
PAGE_H == 84189
MARGIN_X == 4252
MARGIN_Y == 4252
INNER_W == PAGE_W - 2 * MARGIN_X
HALF_H == (PAGE_H - 2 * MARGIN_Y) \div 2
LINE_HEIGHT == 14 * Pt
SECTION_GAP == 12 * Pt
HEADER_H == 18 * Pt
ROW_H == 16 * Pt
RUPEE == "Rs. "
mid_y == MARGIN_Y + HALF_H

\* n tenths of LINE_HEIGHT: LINE_HEIGHT * 1.2, * 2.8, ...
Lines(tenths) == (LINE_HEIGHT * tenths) \div 10

seller ==
  [name    |-> "M/s Sukhrani Enterprises",
   addr    |-> "63 B1 Charari Lal Bangla Kanpur, Uttar Pradesh",
   contact |-> "8604311514, GSTIN: 09AJBPA644Q2ZZ"]

\* f"{RUPEE}{v:,.2f}"
money(v) ==
  LET dr == BDivRem(FScaledRound(v, 2), 100, 1)
  IN  RUPEE \o Grouped(BToInt(BNorm(dr.q))) \o "." \o TwoDigits(dr.r)

\* one canvas call: its name, the y it draws at, its text
Op(op, y, text) == [op |-> op, y |-> y, text |-> text]

\* one block of the page: the function that drew it, the copy label it was
\* given (header), the y it started at, the key whose absence stopped it
Block(name, label, y, stop) == [block |-> name, label |-> label, y |-> y, stop |-> stop]

PdfIdle ==
  [pc |-> "idle", copy |-> 0, y |-> 0, c |-> <<>>,
   unshown |-> FALSE, pages |-> 0, saved |-> 0,
   err |-> [type |-> None, arg |-> None], ret |-> None]

PdfStart == [PdfIdle EXCEPT !.pc = "makedirs"]

Raise(s, type, a) == [s EXCEPT !.pc = "raised", !.err = [type |-> type, arg |-> a]]

Drawn(s, block) == [s EXCEPT !.c = Append(s.c, block), !.unshown = TRUE]

\* d[k] for a key that may be absent
Get(d, k) == IF k \in DOMAIN d THEN d[k] ELSE None

\* the first key of keys that d lacks, None when it has them all
RECURSIVE FirstMissing(_, _)
FirstMissing(d, keys) ==
  IF keys = <<>> THEN None
  ELSE IF Head(keys) \notin DOMAIN d THEN Head(keys)
  ELSE FirstMissing(d, Tail(keys))

draw_line(y) == Op("line", y, "")

header_calls(y, label) ==
  << Op("drawString", y, seller.name),
     Op("drawString", y - LINE_HEIGHT, seller.addr),
     Op("drawString", y - 2 * LINE_HEIGHT, seller.contact),
     Op("drawRightString", y, "INVOICE"),
     Op("drawRightString", y - Lines(12), label),
     draw_line(y - Lines(28)) >>

draw_header(s, label) ==
  [Drawn(s, Block("draw_header", label, s.y, None))
     EXCEPT !.y = s.y - Lines(28) - SECTION_GAP, !.pc = "billing"]

\* The keys draw_billing_meta reads, in the order it reads them: the first
\* absent one raises KeyError and ends the block there.
billing_missing(invoice_data) ==
  IF "buyer" \notin DOMAIN invoice_data THEN "buyer"
  ELSE IF FirstMissing(invoice_data.buyer, <<"name", "id_type", "id_value">>) # None
  THEN FirstMissing(invoice_data.buyer, <<"name", "id_type", "id_value">>)
  ELSE IF "meta" \notin DOMAIN invoice_data THEN "meta"
  ELSE FirstMissing(invoice_data.meta,
                    <<"place_of_supply", "no", "date", "vehicle_no">>)

\* the canvas calls draw_billing_meta makes before it stops at `stop`
billing_calls(y, invoice_data, stop) ==
  LET buyer_y == y - Lines(12)
      buyer   == invoice_data.buyer
      meta    == invoice_data.meta
      calls   ==
        << <<"",  Op("drawString", y, "Bill To:")>>,
           <<"name", Op("drawString", buyer_y, Get(buyer, "name"))>>,
           <<"id_value", Op("drawString", buyer_y - LINE_HEIGHT,
                 Get(buyer, "id_type") \o ": " \o Get(buyer, "id_value"))>>,
           <<"place_of_supply", Op("drawString", buyer_y - 2 * LINE_HEIGHT,
                 "Place of Supply: " \o Get(meta, "place_of_supply"))>>,
           <<"no", Op("drawRightString", y,
                 "Invoice #: " \o ToString(Get(meta, "no")))>>,
           <<"date", Op("drawRightString", y - LINE_HEIGHT,
                 "Bill Date: " \o Get(meta, "date"))>>,
           <<"vehicle_no", Op("drawRightString", y - 2 * LINE_HEIGHT,
                 "Vehicle No: " \o Get(meta, "vehicle_no"))>>,
           <<"", draw_line(buyer_y - Lines(28))>> >>
      \* the call that reads `stop` (the id line reads id_type, then id_value)
      at(k) == IF k \in {"buyer", "name"} THEN 2
               ELSE IF k \in {"id_type", "id_value"} THEN 3
               ELSE IF k \in {"meta", "place_of_supply"} THEN 4
               ELSE IF k = "no" THEN 5
               ELSE IF k = "date" THEN 6
               ELSE IF k = "vehicle_no" THEN 7 ELSE Len(calls) + 1
  IN  [i \in 1..(at(stop) - 1) |-> calls[i][2]]

draw_billing_meta(s, invoice_data) ==
  LET miss == billing_missing(invoice_data)
      done == Drawn(s, Block("draw_billing_meta", "", s.y, miss))
  IN  IF miss # None THEN Raise(done, "KeyError", miss)
      ELSE [done EXCEPT !.y = s.y - Lines(12) - Lines(28) - SECTION_GAP,
                        !.pc = "table"]

\* header, relative width weight (hundredths), alignment
COLS ==
  << <<"S.N.", 5, "C">>, <<"Items", 25, "L">>, <<"Qty.", 6, "C">>,
     <<"HSN", 8, "C">>, <<"Rate", 11, "R">>, <<"Amount", 13, "R">>,
     <<"CGST", 6, "C">>, <<"SGST", 6, "C">>, <<"Tax", 12, "R">>,
     <<"Total", 14, "R">> >>

\* reportlab.lib.units: inch = 72.0, cm = inch / 2.54, mm = cm * 0.1
mm == FMul(FDiv(FFromInt(72), D(254, 2)), D(1, 1))

\* reportlab.lib.pagesizes: A4 = (210 * mm, 297 * mm)
A4 == << FMul(FFromInt(210), mm), FMul(FFromInt(297), mm) >>

\* 15 * mm, and PAGE_W - 2 * MARGIN_X, as the floats the program holds
FloatMARGIN_X == FMul(FFromInt(15), mm)
FloatINNER_W == FSub(A4[1], FMul(FFromInt(2), FloatMARGIN_X))

\* sum(ws): a left fold that starts from 0
RECURSIVE FSum(_, _)
FSum(ws, acc) == IF ws = <<>> THEN acc ELSE FSum(Tail(ws), FAdd(acc, Head(ws)))

\* the weights as written
RawWeights == [i \in 1..Len(COLS) |-> D(COLS[i][2], 2)]

\* widths left as written, not normalized
scale_one == FFromInt(1)

\* scale = 1.0 / sum(w for _, w, _ in COLS)
scale == FDiv(FFromInt(1), FSum(RawWeights, FZero))

\* the width_frac of each column: w * scale
width_frac == [i \in 1..Len(COLS) |-> FMul(RawWeights[i], scale)]

\* col_x = [x]; for each column: col_x.append(col_x[-1] + INNER_W * width_frac)
RECURSIVE col_x_from(_, _)
col_x_from(acc, i) ==
  IF i > Len(COLS) THEN acc
  ELSE col_x_from(Append(acc, FAdd(acc[Len(acc)], FMul(FloatINNER_W, width_frac[i]))),
                  i + 1)

col_x(x) == col_x_from(<<x>>, 1)

\* the canvas call an alignment selects
Aligned(align) ==
  IF align = "L" THEN "drawString"
  ELSE IF align = "C" THEN "drawCentredString" ELSE "drawRightString"

\* the ten cells of one row, drawn at y
Cells(texts, y) == [i \in 1..Len(COLS) |-> Op(Aligned(COLS[i][3]), y, texts[i])]

RowTexts(item) ==
  << ToString(item.sn), item.name, ToString(item.qty), item.hsn,
     money(item.rate), money(item.amount),
     format_tax_percentage(item.cgst), format_tax_percentage(item.sgst),
     money(item.tax), money(item.total) >>

\* for item in invoice_data['items']: current_y -= ROW_H; draw the ten cells
RECURSIVE Rows(_, _)
Rows(items, current_y) ==
  IF items = <<>> THEN <<>>
  ELSE Cells(RowTexts(Head(items)), current_y - ROW_H + 5 * Pt)
       \o Rows(Tail(items), current_y - ROW_H)

\* y of the table's bottom edge for a table that starts at table_top
TableBottom(table_top, items) == table_top - HEADER_H - Len(items) * ROW_H

\* the canvas calls of draw_items_table
table_calls(table_top, invoice_data, stop) ==
  LET head == << Op("rect", table_top - HEADER_H, "") >>
              \o Cells([i \in 1..Len(COLS) |-> COLS[i][1]], table_top - 12 * Pt)
  IN  IF stop # None THEN head
      ELSE LET items        == invoice_data.items
               table_bottom == TableBottom(table_top, items)
           IN  head
               \o Rows(items, table_top - HEADER_H)
               \o << Op("rect", table_bottom, ""),
                     Op("line", table_top - HEADER_H, "") >>
               \o [i \in 1..(Len(COLS) - 1) |-> Op("vline", table_bottom, "")]
               \o [i \in 1..Len(items) |->
                     Op("line", table_top - HEADER_H - (i - 1) * ROW_H, "")]

\* lowest y a copy's table may reach without leaving its half of the page
CopyFloor(copy) == IF copy = 1 THEN mid_y ELSE MARGIN_Y

\* a renderer that refuses a table too long for its half page
draw_items_table_limited(s, invoice_data) ==
  IF "items" \notin DOMAIN invoice_data
  THEN Raise(Drawn(s, Block("draw_items_table", "", s.y, "items")),
             "KeyError", "items")
  ELSE IF TableBottom(s.y, invoice_data.items) < CopyFloor(s.copy)
  THEN Raise(Drawn(s, Block("draw_items_table", "", s.y, "MaxRowsExceeded")),
             "ValueError", "MaxRowsExceeded")
  ELSE [Drawn(s, Block("draw_items_table", "", s.y, None))
          EXCEPT !.y = TableBottom(s.y, invoice_data.items), !.pc = "footer"]

draw_items_table(s, invoice_data) ==
  IF "items" \notin DOMAIN invoice_data
  THEN Raise(Drawn(s, Block("draw_items_table", "", s.y, "items")),
             "KeyError", "items")
  ELSE [Drawn(s, Block("draw_items_table", "", s.y, None))
          EXCEPT !.y = TableBottom(s.y, invoice_data.items), !.pc = "footer"]

footer_missing(invoice_data) ==
  IF "totals" \notin DOMAIN invoice_data THEN "totals"
  ELSE FirstMissing(invoice_data.totals, <<"amount", "tax", "grand_total">>)

\* the canvas calls of draw_footer(c, x, y), y = table_bottom - SECTION_GAP
footer_calls(y, invoice_data, stop) ==
  LET totals == invoice_data.totals
      calls  ==
        << <<"", Op("drawString", y - LINE_HEIGHT, "Total Amount")>>,
           <<"amount", Op("drawRightString", y - LINE_HEIGHT,
                          money(Get(totals, "amount")))>>,
           <<"", Op("drawString", y - 2 * LINE_HEIGHT, "Total Tax")>>,
           <<"tax", Op("drawRightString", y - 2 * LINE_HEIGHT,
                       money(Get(totals, "tax")))>>,
           <<"", Op("drawString", y - 3 * LINE_HEIGHT, "GRAND TOTAL")>>,
           <<"grand_total", Op("drawRightString", y - 3 * LINE_HEIGHT,
                               money(Get(totals, "grand_total")))>>,
           <<"", draw_line(y - Lines(38))>>,
           <<"", Op("drawString", y - Lines(48),
                    "Make all checks payable to Sukhrani Enterprises")>>,
           <<"", Op("drawRightString", y - Lines(48), "Signature")>> >>
      at(k) == IF k \in {"totals", "amount"} THEN 2
               ELSE IF k = "tax" THEN 4
               ELSE IF k = "grand_total" THEN 6 ELSE Len(calls) + 1
  IN  [i \in 1..(at(stop) - 1) |-> calls[i][2]]

draw_footer(s, invoice_data) ==
  LET miss == footer_missing(invoice_data)
      done == Drawn(s, Block("draw_footer", "", s.y - SECTION_GAP, miss))
  IN  IF miss # None THEN Raise(done, "KeyError", miss)
      ELSE [done EXCEPT !.y = s.y - SECTION_GAP - Lines(48),
                        !.pc = IF s.copy = 1 THEN "divider" ELSE "showPage"]

copy_label(copy) == IF copy = 1 THEN "Original Copy" ELSE "Duplicate Copy"

\* One step of generate_pdf.  fault names the file-system call that fails
\* in this run ("none": none does).
generate_pdf_step(s, invoice_data, output_path, fault) ==
  CASE s.pc = "makedirs" ->
         IF fault = "makedirs" THEN Raise(s, "OSError", "makedirs")
         ELSE [s EXCEPT !.pc = "canvas"]
    [] s.pc = "canvas" ->
         [s EXCEPT !.pc = "header", !.copy = 1, !.y = PAGE_H - MARGIN_Y]
    [] s.pc = "header"  -> draw_header(s, copy_label(s.copy))
    [] s.pc = "billing" -> draw_billing_meta(s, invoice_data)
    [] s.pc = "table"   -> draw_items_table(s, invoice_data)
    [] s.pc = "footer"  -> draw_footer(s, invoice_data)
    [] s.pc = "divider" ->
         \* setDash(3, 2); line at mid_y; setDash()
         [Drawn(s, Block("dashed line", "", mid_y, None))
            EXCEPT !.pc = "header", !.copy = 2, !.y = mid_y - 30 * Pt]
    [] s.pc = "showPage" ->
         [s EXCEPT !.c = Append(s.c, Block("showPage", "", 0, None)),
                   !.pages = s.pages + 1, !.unshown = FALSE, !.pc = "save"]
    [] s.pc = "save" ->
         \* Canvas.save() first ends a page that has drawings not yet shown
         IF fault = "save" THEN Raise(s, "OSError", "save")
         ELSE [s EXCEPT !.c = Append(s.c, Block("save", "", 0, None)),
                        !.pages = s.pages + (IF s.unshown THEN 1 ELSE 0),
                        !.unshown = FALSE, !.saved = s.saved + 1,
                        !.pc = "return"]
    [] s.pc = "return" -> [s EXCEPT !.pc = "returned", !.ret = output_path]
    [] OTHER -> s

PdfDone(s) == s.pc \in {"returned", "raised"}

\* the call run to its end
RECURSIVE generate_pdf(_, _, _, _)
generate_pdf(s, invoice_data, output_path, fault) ==
  IF PdfDone(s) THEN s
  ELSE generate_pdf(generate_pdf_step(s, invoice_data, output_path, fault),
                    invoice_data, output_path, fault)

\* every canvas call of a finished or unfinished page, block by block
RECURSIVE canvas_calls(_, _)
canvas_calls(c, invoice_data) ==
  IF c = <<>> THEN <<>>
  ELSE LET b == Head(c)
           calls ==
             CASE b.block = "draw_header" -> header_calls(b.y, b.label)
               [] b.block = "draw_billing_meta" ->
                    billing_calls(b.y, invoice_data, b.stop)
               [] b.block = "draw_items_table" ->
                    table_calls(b.y, invoice_data, b.stop)
               [] b.block = "draw_footer" ->
                    footer_calls(b.y, invoice_data, b.stop)
               [] OTHER -> << Op(b.block, b.y, "") >>
       IN  calls \o canvas_calls(Tail(c), invoice_data)

(***************************************************************************)
(* State.                                                                  *)
(*                                                                         *)
(* sku_data, customer_data, vehicle_list are the objects that              *)
(* st.session_state.sku_data / customer_data / vehicle_list refer to.      *)
(* load_data returns its default_data argument itself, so they are the     *)
(* module-level objects DEFAULT_SKU_DATA, DEFAULT_CUSTOMER_DATA and        *)
(* DEFAULT_VEHICLE_DATA["vehicles"] of invoice_app, mutated in place.      *)
(*                                                                         *)
(* invoice_items is st.session_state.invoice_items.                        *)
(* ui is what the last script run left on the page: the button that        *)
(* triggered it, the value of the remove selectbox, the message shown,     *)
(* the totals shown by st.metric, and whether the download and the         *)
(* "Clear Invoice Items" buttons were rendered.                            *)
(*                                                                         *)
(* fn, arg, env, rets, pdf belong to the function-level specification      *)
(* SpecUnit, which calls the functions of invoice_app.py directly.         *)
(***************************************************************************)
VARIABLES sku_data, customer_data, vehicle_list, invoice_items, ui,
          fn, arg, env, rets, pdf

\* session_state[s] is st.session_state of browser session s, by the keys it
\* holds: data_loaded, and sku_data, customer_data, vehicle_list, which
\* hold references to objects of the process.  current is the session the
\* last script run belonged to; the page actions run in it.
VARIABLES session_state, current

refdata  == <<sku_data, customer_data, vehicle_list>>
appvars  == <<sku_data, customer_data, vehicle_list, invoice_items, ui>>
unitvars == <<fn, arg, env, rets, pdf>>
sessvars == <<session_state, current>>
vars     == <<sku_data, customer_data, vehicle_list, invoice_items, ui,
              fn, arg, env, rets, pdf, session_state, current>>

(***************************************************************************)
(* Sessions.  The objects of the process that hold reference data are      *)
(* named by the expression that denotes them in invoice_app; a reference   *)
(* is such a name.                                                         *)
(***************************************************************************)
\* the browser sessions of the process
Sessions == {1, 2}

SKU_OBJECT == "DEFAULT_SKU_DATA"
CUSTOMER_OBJECT == "DEFAULT_CUSTOMER_DATA"
VEHICLES_OBJECT == "DEFAULT_VEHICLE_DATA['vehicles']"

\* the present content of the object a reference names
Object(ref) ==
  CASE ref = SKU_OBJECT -> sku_data
    [] ref = CUSTOMER_OBJECT -> customer_data
    [] ref = VEHICLES_OBJECT -> vehicle_list

\* invoice_app.load_data: return default_data
load_data(file_path, default_data) == default_data

\* (sku_data, customer_data, vehicle_data.get("vehicles", []))
load_existing_data ==
  << load_data("sku_data.json", SKU_OBJECT),
     load_data("customer_data.json", CUSTOMER_OBJECT),
     IF load_data("vehicle_data.json", "DEFAULT_VEHICLE_DATA") = "DEFAULT_VEHICLE_DATA"
     THEN VEHICLES_OBJECT ELSE None >>

\* st.session_state with key k set to v
SetState(state, k, v) ==
  [x \in DOMAIN state \cup {k} |-> IF x = k THEN v ELSE state[x]]

\* if 'data_loaded' not in st.session_state: ...
initialize_session_data(state) ==
  IF "data_loaded" \notin DOMAIN state
  THEN [k \in DOMAIN state \cup {"sku_data", "customer_data", "vehicle_list",
                                  "data_loaded"} |->
          CASE k = "sku_data" -> load_existing_data[1]
            [] k = "customer_data" -> load_existing_data[2]
            [] k = "vehicle_list" -> load_existing_data[3]
            [] k = "data_loaded" -> "True"
            [] OTHER -> state[k]]
  ELSE state

\* session s has run the script at least once
Opened(s) == "data_loaded" \in DOMAIN session_state[s]

\* the reference data session s works on
View(s) ==
  << Object(session_state[s]["sku_data"]),
     Object(session_state[s]["customer_data"]),
     Object(session_state[s]["vehicle_list"]) >>

\* st.session_state.<key> of the current session is the object ref
Refers(key, ref) ==
  /\ Opened(current)
  /\ session_state[current][key] = ref

\* session 1 has run the script once, session 2 has not been opened
FirstSession ==
  /\ session_state = [s \in Sessions |->
                        IF s = 1 THEN initialize_session_data(<<>>) ELSE <<>>]
  /\ current = 1

\* bounds of the model
MaxItems == 4

Screen(trigger, item_to_remove, msg, totals, download, clear) ==
  [trigger |-> trigger, item_to_remove |-> item_to_remove, msg |-> msg,
   totals |-> totals, download_button |-> download, clear_button |-> clear]

(***************************************************************************)
(* src/streamlit_app.py: the Generate Invoice page                         *)
(***************************************************************************)
places == DOMAIN customer_data

\* values the "Customer" selectbox offers for a place
customers(place_of_supply) ==
  {customer_data[place_of_supply][i].name :
     i \in 1..Len(customer_data[place_of_supply])}

\* The script gets past its three st.stop() calls with this place selected.
PageRendered(place_of_supply) ==
  /\ place_of_supply \in places
  /\ customers(place_of_supply) # {}
  /\ DOMAIN sku_data # {}

\* Some selection of the place lets the page render down to the item form.
InvoicePageRendered == \E p \in places : PageRendered(p)

Range(s) == {s[i] : i \in 1..Len(s)}

\* the widget the script shows for the weight: a selectbox over the SKU's
\* weights, or a free text input when the SKU lists none
WeightOffered(selected_item, selected_weight) ==
  LET weights == sku_data[selected_item].weights
  IN  IF \E w \in Range(weights) : w # ""
      THEN selected_weight \in Range(weights)
      ELSE TRUE

\* the dict the "Add Item" branch builds for one line
LineItem(sn, selected_item, selected_weight, quantity, rate, item_details) ==
  LET amount == FMul(rate, FFromInt(quantity))
      tax    == FMul(amount, FAdd(item_details.cgst, item_details.sgst))
  IN  [sn     |-> sn,
       name   |-> IF selected_weight # ""
                  THEN selected_item \o " (" \o selected_weight \o ")"
                  ELSE selected_item,
       qty    |-> quantity,
       hsn    |-> item_details.hsn,
       rate   |-> rate,
       amount |-> amount,
       cgst   |-> item_details.cgst,
       sgst   |-> item_details.sgst,
       tax    |-> tax,
       total  |-> FAdd(amount, tax)]

\* a line whose tax leaves out the state rate
NewItemWrongTax(selected_item, selected_weight, quantity, rate) ==
  LET line == LineItem(Len(invoice_items) + 1, selected_item, selected_weight,
                       quantity, rate, sku_data[selected_item])
      tax  == FMul(line.amount, line.cgst)
  IN  [line EXCEPT !.tax = tax, !.total = FAdd(line.amount, tax)]

\* a line whose total leaves out the tax
NewItemTotalIsAmount(selected_item, selected_weight, quantity, rate) ==
  LET line == LineItem(Len(invoice_items) + 1, selected_item, selected_weight,
                       quantity, rate, sku_data[selected_item])
  IN  [line EXCEPT !.total = line.amount]

\* new_item: 'sn': len(st.session_state.invoice_items) + 1, ...
NewItem(selected_item, selected_weight, quantity, rate) ==
  LineItem(Len(invoice_items) + 1, selected_item, selected_weight,
           quantity, rate, sku_data[selected_item])

\* a lookup that takes the entry out of the dictionary (d.pop(k))
LookupPop(d, k) == [ret |-> d[k], d |-> [x \in DOMAIN d \ {k} |-> d[x]]]

\* d[k]: the entry, and the dictionary as the lookup leaves it
Lookup(d, k) == [ret |-> d[k], d |-> d]

\* "Add Item" submitted: if add_item and rate > 0
AddItem(selected_item, selected_weight, quantity, rate) ==
  /\ InvoicePageRendered
  /\ selected_item \in DOMAIN sku_data
  /\ WeightOffered(selected_item, selected_weight)
  /\ Len(invoice_items) < MaxItems
  /\ IF FLess(FZero, rate)
     THEN /\ invoice_items' = Append(invoice_items,
                NewItem(selected_item, selected_weight, quantity, rate))
          /\ sku_data' = Lookup(sku_data, selected_item).d
          /\ ui' = Screen("add_item", NoSelection, "Item added!", <<>>, FALSE, FALSE)
     ELSE /\ UNCHANGED <<invoice_items, sku_data>>
          /\ ui' = Screen("add_item", NoSelection, "", <<>>, FALSE, FALSE)
  /\ UNCHANGED <<customer_data, vehicle_list, unitvars, sessvars>>

\* The options of "Select item to remove": "" (NoSelection) and
\* f"{i+1}. {item['name']}", kept as the number and the name it is made of.
item_options ==
  {[number |-> i, name |-> invoice_items[i].name] : i \in 1..Len(invoice_items)}

\* list.pop(index), index counted from 0
Pop(s, index) ==
  [j \in 1..(Len(s) - 1) |-> IF j <= index THEN s[j] ELSE s[j + 1]]

\* for i, item in enumerate(items): item['sn'] = i + 1
ReindexKeep(items) == items

Reindex(items) ==
  [i \in 1..Len(items) |-> [items[i] EXCEPT !.sn = i]]

\* "Remove Item" clicked: if st.button("Remove Item") and item_to_remove
RemoveItem(item_to_remove) ==
  /\ InvoicePageRendered
  /\ invoice_items # <<>>
  /\ item_to_remove \in {NoSelection} \cup item_options
  /\ IF item_to_remove # NoSelection
     THEN LET index == item_to_remove.number - 1   \* int(s.split(".")[0]) - 1
          IN  invoice_items' = Reindex(Pop(invoice_items, index))
     ELSE UNCHANGED invoice_items
  /\ ui' = Screen("remove_item", item_to_remove, "", <<>>, FALSE, FALSE)
  /\ UNCHANGED <<refdata, unitvars, sessvars>>

\* next(c for c in customers if c['name'] == customer_name): <<c>>, or
\* <<>> where next() raises StopIteration
RECURSIVE FirstNamed(_, _)
FirstNamed(cs, customer_name) ==
  IF cs = <<>> THEN <<>>
  ELSE IF Head(cs).name = customer_name THEN <<Head(cs)>>
  ELSE FirstNamed(Tail(cs), customer_name)

Today == "03/11/2026"
TmpName == "/tmp/tmpinvoice.pdf"

\* str(e) of the OSError a failing file-system call raises
OSErrorText == "[Errno 28] No space left on device"

\* the text str(e) of an exception raised by generate_pdf
ErrorText(err) ==
  IF err.type = "KeyError" THEN "'" \o err.arg \o "'"
  ELSE IF err.type = "OSError" THEN OSErrorText ELSE err.arg

ErrorScreen(trigger, text, totals, download, clear) ==
  Screen(trigger, NoSelection, "Error generating invoice: " \o text,
         totals, download, clear)

\* invoice_data as the script builds it from the widgets, the buyer found
\* and the adjusted items and totals
InvoiceData(invoice_no, vehicle_no, place_of_supply, buyer, adj) ==
  [meta   |-> [no |-> invoice_no, date |-> Today,
               place_of_supply |-> place_of_supply,
               vehicle_no |-> vehicle_no],
   buyer  |-> buyer,
   items  |-> adj.ret[1],
   totals |-> adj.ret[2]]

\* The end of the try block once apply_price_adjustments has returned adj
\* and generate_pdf has ended in r: the list the session holds after the run
\* and what the run shows.
InvoiceOutcome(trigger, invoice_no, fault, adj, r) ==
  IF fault = "tmpfile"
  THEN [invoice_items |-> adj.invoice_items,
        ui |-> ErrorScreen(trigger, OSErrorText, <<>>, FALSE, FALSE)]
  ELSE IF r.pc = "raised"
  THEN [invoice_items |-> adj.invoice_items,
        ui |-> ErrorScreen(trigger, ErrorText(r.err), <<>>, FALSE, FALSE)]
  ELSE IF fault = "open"
  THEN [invoice_items |-> adj.invoice_items,
        ui |-> ErrorScreen(trigger, OSErrorText, <<>>, FALSE, FALSE)]
  ELSE IF trigger = "clear"
  THEN [invoice_items |-> <<>>,
        ui |-> Screen(trigger, NoSelection, "", <<>>, FALSE, FALSE)]
  ELSE IF fault = "unlink"
  THEN [invoice_items |-> adj.invoice_items,
        ui |-> ErrorScreen(trigger, OSErrorText, <<adj.ret[2]>>, TRUE, TRUE)]
  ELSE [invoice_items |-> adj.invoice_items,
        ui |-> Screen(trigger, NoSelection,
                      "Invoice #" \o ToString(invoice_no)
                         \o " generated successfully!",
                      <<adj.ret[2]>>, TRUE, TRUE)]

\* the try block from the call of generate_pdf on
InvoiceRendered(trigger, invoice_no, vehicle_no, place_of_supply, buyer, fault, adj) ==
  InvoiceOutcome(trigger, invoice_no, fault, adj,
                 generate_pdf(PdfStart,
                              InvoiceData(invoice_no, vehicle_no,
                                          place_of_supply, buyer, adj),
                              TmpName, fault))

\* Lines 224-283 in a script run started by the button `trigger`:
\*   if st.button("Generate PDF Invoice"):  try: ...
\*       if st.button("Clear Invoice Items"): ...   except Exception as e: ...
\* A button is True only in the run its own click started, so the try block
\* runs only when trigger is "generate".  fault names the file-system call
\* that fails in this run.
InvoiceBlock(trigger, invoice_no, vehicle_no, place_of_supply, customer_name, fault) ==
  IF trigger # "generate"
  THEN [invoice_items |-> invoice_items,
        ui |-> Screen(trigger, NoSelection, "", <<>>, FALSE, FALSE)]
  ELSE IF FirstNamed(customer_data[place_of_supply], customer_name) = <<>>
  THEN [invoice_items |-> invoice_items,
        ui |-> ErrorScreen(trigger, "", <<>>, FALSE, FALSE)]
  ELSE InvoiceRendered(trigger, invoice_no, vehicle_no, place_of_supply,
                       FirstNamed(customer_data[place_of_supply],
                                  customer_name)[1],
                       fault, apply_price_adjustments(invoice_items))

Faults == {"none", "tmpfile", "makedirs", "save", "open", "unlink"}
InvoiceNumbers == {101}

\* the vehicle selectbox, or the free text input when no vehicle is stored
VehicleChoices ==
  IF vehicle_list # <<>> THEN Range(vehicle_list) ELSE {"UP78 JT 9555"}

\* "Generate PDF Invoice" clicked
GenerateInvoice(invoice_no, vehicle_no, place_of_supply, customer_name, fault) ==
  /\ PageRendered(place_of_supply)
  /\ customer_name \in customers(place_of_supply)
  /\ vehicle_no \in VehicleChoices
  /\ invoice_items # <<>>
  /\ \E run \in {InvoiceBlock("generate", invoice_no, vehicle_no,
                                place_of_supply, customer_name, fault)} :
        /\ invoice_items' = run.invoice_items
        /\ ui' = run.ui
  /\ UNCHANGED <<refdata, unitvars, sessvars>>

\* "Clear Invoice Items" clicked: the button the last run rendered
ClearInvoiceItems(invoice_no, vehicle_no, place_of_supply, customer_name) ==
  /\ ui.clear_button
  /\ PageRendered(place_of_supply)
  /\ customer_name \in customers(place_of_supply)
  /\ vehicle_no \in VehicleChoices
  /\ \E run \in {InvoiceBlock("clear", invoice_no, vehicle_no,
                                place_of_supply, customer_name, "none")} :
        /\ invoice_items' = run.invoice_items
        /\ ui' = run.ui
  /\ UNCHANGED <<refdata, unitvars, sessvars>>

(***************************************************************************)
(* src/streamlit_app.py: the Manage SKUs page                              *)
(***************************************************************************)
\* str.title() on the names the model types in
title(text) ==
  CASE text = "" -> ""
    [] text = "tomato sauce" -> "Tomato Sauce"
    [] text = "Tomato Sauce" -> "Tomato Sauce"
    [] text = "kanpur" -> "Kanpur"
    [] text = "Kanpur" -> "Kanpur"
    [] text = "rudauli" -> "Rudauli"
    [] text = "Rudauli" -> "Rudauli"

KnownWeights == {"4.5 Kg", "650 mL", "5 L", "500 gm", "1 Kg", "1 L", "500 mL"}

\* w.strip() of a comma-separated piece: a known weight, bare or after a blank
strip(piece) ==
  IF \E w \in KnownWeights : piece = " " \o w
  THEN CHOOSE w \in KnownWeights : piece = " " \o w
  ELSE IF piece = " " THEN "" ELSE piece

\* text.split(','), the text given by its pieces; "" splits into [""]
\* [w.strip() for w in text.split(',') if w.strip()] if text else []
RECURSIVE parse_weights(_)
parse_weights(pieces) ==
  IF pieces = <<>> THEN <<>>
  ELSE IF strip(Head(pieces)) # ""
  THEN <<strip(Head(pieces))>> \o parse_weights(Tail(pieces))
  ELSE parse_weights(Tail(pieces))

\* ', '.join(weights), by its comma-separated pieces
RECURSIVE joined(_)
joined(weights) ==
  IF weights = <<>> THEN <<>>
  ELSE IF Len(weights) = 1 THEN weights
  ELSE joined(SubSeq(weights, 1, Len(weights) - 1))
       \o <<" " \o weights[Len(weights)]>>

SetKey(d, k, v) == [x \in DOMAIN d \cup {k} |-> IF x = k THEN v ELSE d[x]]
DelKey(d, k) == [x \in DOMAIN d \ {k} |-> d[x]]

Note(trigger, msg) == Screen(trigger, NoSelection, msg, <<>>, FALSE, FALSE)

\* "Add SKU" submitted
AddSKU(item_name, hsn_code, cgst_rate, sgst_rate, weights_input) ==
  /\ IF item_name # "" /\ hsn_code # ""
     THEN /\ sku_data' = SetKey(sku_data, title(item_name),
                                [hsn |-> hsn_code, cgst |-> cgst_rate,
                                 sgst |-> sgst_rate,
                                 weights |-> parse_weights(weights_input)])
          /\ ui' = Note("add_sku", "SKU '" \o item_name \o "' added successfully!")
     ELSE /\ UNCHANGED sku_data
          /\ ui' = Note("add_sku", "Item name and HSN code are required")
  /\ UNCHANGED <<customer_data, vehicle_list, invoice_items, unitvars, sessvars>>

\* "Delete SKU" clicked beside item_name
DeleteSKU(item_name) ==
  /\ item_name \in DOMAIN sku_data
  /\ sku_data' = DelKey(sku_data, item_name)
  /\ ui' = Note("delete_sku", "")
  /\ UNCHANGED <<customer_data, vehicle_list, invoice_items, unitvars, sessvars>>

\* "Update SKU" submitted for selected_sku
EditSKU(selected_sku, new_name, new_hsn, new_cgst, new_sgst, new_weights_str) ==
  /\ selected_sku \in DOMAIN sku_data
  /\ selected_sku # ""
  /\ IF new_name # "" /\ new_hsn # ""
     THEN /\ sku_data' =
               SetKey(IF selected_sku # new_name
                      THEN DelKey(sku_data, selected_sku) ELSE sku_data,
                      new_name,
                      [hsn |-> new_hsn, cgst |-> new_cgst, sgst |-> new_sgst,
                       weights |-> parse_weights(new_weights_str)])
          \* st.success(...) and then st.rerun(): the rerun shows no message
          /\ ui' = Note("edit_sku", "")
     ELSE /\ UNCHANGED sku_data
          /\ ui' = Note("edit_sku", "Item name and HSN code are required")
  /\ UNCHANGED <<customer_data, vehicle_list, invoice_items, unitvars, sessvars>>

(***************************************************************************)
(* The session.  What the operator types is drawn from small sets.         *)
(***************************************************************************)
\* item, weight, quantity and rate typed into the "Add Items" form
OrderLines ==
  { [item |-> "Tomato Sauce", weight |-> "4.5 Kg", qty |-> 2, rate |-> D(10000, 2)],
    [item |-> "Vinegar",      weight |-> "650 mL", qty |-> 1, rate |-> D(50000, 2)],
    [item |-> "Noodles",      weight |-> "500 gm", qty |-> 5, rate |-> D(2000, 2)],
    [item |-> "PET Bottle",   weight |-> "",       qty |-> 1, rate |-> D(0, 2)] }

\* what is typed into the SKU forms
AddSkuForms ==
  { [item_name |-> "", hsn_code |-> "2103", cgst_rate |-> D(25, 3),
     sgst_rate |-> D(25, 3), weights_input |-> <<"4.5 Kg", " 650 mL", " 5 L">>],
    [item_name |-> "tomato sauce", hsn_code |-> "2103", cgst_rate |-> D(25, 3),
     sgst_rate |-> D(25, 3), weights_input |-> <<"4.5 Kg", " 650 mL", " 5 L">>] }
EditedSkus == {"Tomato Sauce"}
NewSkuNames == {""}
\* a new name that another SKU of the catalog has
TakenSkuNames == {"Vinegar"}
NewRates == {D(6, 2)}

Init ==
  /\ sku_data = DEFAULT_SKU_DATA
  /\ customer_data = DEFAULT_CUSTOMER_DATA
  /\ vehicle_list = DEFAULT_VEHICLE_DATA.vehicles
  /\ invoice_items = <<>>
  /\ ui = Screen("", NoSelection, "", <<>>, FALSE, FALSE)
  /\ fn = "none"
  /\ arg = <<>>
  /\ env = "none"
  /\ rets = <<>>
  /\ pdf = PdfIdle
  /\ FirstSession

Next ==
  \/ \E l \in OrderLines : AddItem(l.item, l.weight, l.qty, l.rate)
  \/ \E o \in {NoSelection} \cup item_options : RemoveItem(o)
  \/ \E no \in InvoiceNumbers, v \in VehicleChoices, p \in places, f \in Faults :
       \E n \in customers(p) : GenerateInvoice(no, v, p, n, f)
  \/ \E no \in InvoiceNumbers, v \in VehicleChoices, p \in places :
       \E n \in customers(p) : ClearInvoiceItems(no, v, p, n)
  \/ \E f \in AddSkuForms :
       AddSKU(f.item_name, f.hsn_code, f.cgst_rate, f.sgst_rate, f.weights_input)
  \/ \E n \in EditedSkus : DeleteSKU(n)
  \/ \E k \in EditedSkus \cap DOMAIN sku_data :
       \E n \in NewSkuNames \cup {k}, r \in NewRates \cup {sku_data[k].cgst} :
          EditSKU(k, n, sku_data[k].hsn, r, sku_data[k].sgst,
                  joined(sku_data[k].weights))

Spec == Init /\ [][Next]_vars

(***************************************************************************)
(* The functions of src/invoice_app.py called directly.  fn is the         *)
(* function under call, arg the object it is given, env the file-system    *)
(* call that fails during it, rets the values returned so far, pdf the     *)
(* state of a running generate_pdf.                                        *)
(***************************************************************************)
MaxListLen == 3
MaxRateMilli == 120
MaxRows == 16

\* line items as the "Add Item" branch builds them
UnitItems ==
  { LineItem(1, "Tomato Sauce", "4.5 Kg", 2, D(10000, 2), DEFAULT_SKU_DATA["Tomato Sauce"]),
    LineItem(2, "Vinegar", "650 mL", 1, D(50000, 2), DEFAULT_SKU_DATA["Vinegar"]),
    LineItem(3, "Noodles", "500 gm", 5, D(2000, 2), DEFAULT_SKU_DATA["Noodles"]),
    LineItem(4, "PET Preform", "", 3, D(3333, 2), DEFAULT_SKU_DATA["PET Preform"]) }

\* every list of at most n elements of S
Lists(S, n) == UNION {[1..k -> S] : k \in 0..n}

\* tax rates in thousandths, and 0.0333
UnitRates == {D(k, 3) : k \in 0..MaxRateMilli} \cup {D(333, 4)}

\* n table rows, the order lines of the session in turn
UnitRows(n) ==
  [i \in 1..n |->
     IF i % 3 = 1
     THEN LineItem(i, "Tomato Sauce", "4.5 Kg", 2, D(10000, 2),
                   DEFAULT_SKU_DATA["Tomato Sauce"])
     ELSE IF i % 3 = 2
     THEN LineItem(i, "Vinegar", "650 mL", 1, D(50000, 2),
                   DEFAULT_SKU_DATA["Vinegar"])
     ELSE LineItem(i, "Noodles", "500 gm", 5, D(2000, 2),
                   DEFAULT_SKU_DATA["Noodles"])]

\* the buyer of an invoice record: complete, without the key id_value, and
\* with an empty id_value
UnitBuyers ==
  { DEFAULT_CUSTOMER_DATA["Rudauli"][1],
    [name |-> "Prakash & Sons", id_type |-> "GSTN"],
    [name |-> "Prakash & Sons", id_type |-> "GSTN", id_value |-> ""] }

UnitInvoices ==
  { InvoiceData(101, "UP78 JT 9555", "Rudauli", buyer,
                apply_price_adjustments(UnitRows(n))) :
      buyer \in UnitBuyers, n \in 0..MaxRows }

UnitFaults == {"none", "makedirs", "save"}

\* the x the table is drawn at: MARGIN_X in generate_pdf, and other origins
UnitXs == {FZero, FloatMARGIN_X, FFromInt(72), D(105, 1)}

InitUnit ==
  /\ sku_data = DEFAULT_SKU_DATA
  /\ customer_data = DEFAULT_CUSTOMER_DATA
  /\ vehicle_list = DEFAULT_VEHICLE_DATA.vehicles
  /\ invoice_items = <<>>
  /\ ui = Screen("", NoSelection, "", <<>>, FALSE, FALSE)
  /\ rets = <<>>
  /\ pdf = PdfIdle
  /\ FirstSession
  /\ \/ /\ fn = "recalculate_totals"
        /\ arg \in Lists(UnitItems, MaxListLen)
        /\ env = "none"
     \/ /\ fn = "format_tax_percentage"
        /\ arg \in UnitRates
        /\ env = "none"
     \/ /\ fn = "generate_pdf"
        /\ arg \in UnitInvoices
        /\ env \in UnitFaults
     \/ /\ fn = "draw_items_table"
        /\ arg \in UnitXs
        /\ env = "none"
     \/ /\ fn = "apply_price_adjustments"
        /\ arg \in Lists(UnitItems, MaxListLen)
        /\ env = "none"

\* totals = recalculate_totals(items_list), once and once again
CallRecalculateTotals ==
  /\ fn = "recalculate_totals"
  /\ Len(rets) < 2
  /\ \E r \in {recalculate_totals(arg)} :
        /\ rets' = Append(rets, r.ret)
        /\ arg' = r.items_list
  /\ UNCHANGED <<appvars, sessvars, fn, env, pdf>>

\* text = format_tax_percentage(decimal_rate)
CallFormatTaxPercentage ==
  /\ fn = "format_tax_percentage"
  /\ rets = <<>>
  /\ rets' = <<format_tax_percentage(arg)>>
  /\ UNCHANGED <<appvars, sessvars, fn, arg, env, pdf>>

\* generate_pdf(invoice_data, output_path) is entered
CallGeneratePdf ==
  /\ fn = "generate_pdf"
  /\ pdf.pc = "idle"
  /\ pdf' = PdfStart
  /\ UNCHANGED <<appvars, sessvars, fn, arg, env, rets>>

\* the running generate_pdf takes its next step
GeneratePdfStep ==
  /\ fn = "generate_pdf"
  /\ pdf.pc # "idle"
  /\ ~PdfDone(pdf)
  /\ pdf' = generate_pdf_step(pdf, arg, TmpName, env)
  /\ UNCHANGED <<appvars, sessvars, fn, arg, env, rets>>

\* draw_items_table(c, x, y) computes col_x and right
CallDrawItemsTable ==
  /\ fn = "draw_items_table"
  /\ rets = <<>>
  /\ rets' = <<[col_x |-> col_x(arg), right |-> FAdd(arg, FloatINNER_W)]>>
  /\ UNCHANGED <<appvars, sessvars, fn, arg, env, pdf>>

\* items, totals, aux = apply_price_adjustments(invoice_items)
CallApplyPriceAdjustments ==
  /\ fn = "apply_price_adjustments"
  /\ rets = <<>>
  /\ \E r \in {apply_price_adjustments(arg)} :
        /\ rets' = <<r.ret>>
        /\ arg' = r.invoice_items
  /\ UNCHANGED <<appvars, sessvars, fn, env, pdf>>

NextUnit ==
  \/ CallRecalculateTotals
  \/ CallFormatTaxPercentage
  \/ CallGeneratePdf
  \/ GeneratePdfStep
  \/ CallDrawItemsTable
  \/ CallApplyPriceAdjustments

SpecUnit == InitUnit /\ [][NextUnit]_vars

(***************************************************************************)
(* src/streamlit_app.py: the Manage Customers and Manage Vehicles pages,   *)
(* and the sidebar                                                         *)
(***************************************************************************)
MaxCustomers == 2
MaxVehicles == 2

\* str.upper() on the texts the model types in
upper(text) ==
  CASE text = "" -> ""
    [] text = "up78" -> "UP78"
    [] text = "UP78" -> "UP78"
    [] text = "jt" -> "JT"
    [] text = "JT" -> "JT"
    [] text = "09abcde1234f1z5" -> "09ABCDE1234F1Z5"
    [] text = "09ABCDE1234F1Z5" -> "09ABCDE1234F1Z5"
    [] text = "09AUHPP5426C1ZM" -> "09AUHPP5426C1ZM"

\* all([...]) of text fields: none is empty
all(fields) == \A i \in 1..Len(fields) : fields[i] # ""

\* sum(len(customers) for customers in customer_data.values())
RECURSIVE total_customers(_)
total_customers(directory) ==
  IF DOMAIN directory = {} THEN 0
  ELSE LET place == CHOOSE k \in DOMAIN directory : TRUE
       IN  Len(directory[place]) + total_customers(DelKey(directory, place))

\* directory[place].append(customer), the list created when the key is new
AppendCustomer(directory, place, customer) ==
  SetKey(directory, place,
         Append(IF place \in DOMAIN directory THEN directory[place] ELSE <<>>,
                customer))

\* "Add Customer" submitted
AddCustomer(customer_name, place_of_supply, id_type, id_value) ==
  /\ Refers("customer_data", CUSTOMER_OBJECT)
  /\ IF all(<<customer_name, place_of_supply, id_value>>)
     THEN /\ total_customers(customer_data) < MaxCustomers
          /\ customer_data' =
               AppendCustomer(customer_data, title(place_of_supply),
                              [name |-> customer_name, id_type |-> id_type,
                               id_value |-> upper(id_value)])
          /\ ui' = Note("add_customer",
                        "Customer '" \o customer_name \o "' added successfully!")
     ELSE /\ UNCHANGED customer_data
          /\ ui' = Note("add_customer", "All fields are required")
  /\ UNCHANGED <<sku_data, vehicle_list, invoice_items, unitvars, sessvars>>

\* "Delete" clicked beside customer i (from 0) of place
DeleteCustomer(place, i) ==
  /\ Refers("customer_data", CUSTOMER_OBJECT)
  /\ place \in DOMAIN customer_data
  /\ i \in 0..(Len(customer_data[place]) - 1)
  /\ customer_data' = [customer_data EXCEPT ![place] = Pop(@, i)]
  /\ ui' = Note("delete_customer", "")
  /\ UNCHANGED <<sku_data, vehicle_list, invoice_items, unitvars, sessvars>>

\* the directory after a valid "Update Customer"
UpdatedDirectory(directory, selected_place, idx, new_place, updated_customer) ==
  LET rest == Pop(directory[selected_place], idx)
  IN  AppendCustomer(IF rest = <<>> THEN DelKey(directory, selected_place)
                     ELSE SetKey(directory, selected_place, rest),
                     new_place, updated_customer)

\* an update that takes the customer out of the old place before it looks
\* at the form
EditCustomerEager(selected_place, idx, new_name, new_place, new_id_type, new_id_value) ==
  /\ Refers("customer_data", CUSTOMER_OBJECT)
  /\ selected_place \in DOMAIN customer_data
  /\ idx \in 0..(Len(customer_data[selected_place]) - 1)
  /\ IF all(<<new_name, new_place, new_id_value>>)
     THEN /\ customer_data' =
               UpdatedDirectory(customer_data, selected_place, idx, new_place,
                                [name |-> new_name, id_type |-> new_id_type,
                                 id_value |-> upper(new_id_value)])
          /\ ui' = Note("edit_customer", "")
     ELSE /\ customer_data' = [customer_data EXCEPT ![selected_place] = Pop(@, idx)]
          /\ ui' = Note("edit_customer", "All fields are required")
  /\ UNCHANGED <<sku_data, vehicle_list, invoice_items, unitvars, sessvars>>

\* "Update Customer" submitted for customer idx (from 0) of selected_place
EditCustomer(selected_place, idx, new_name, new_place, new_id_type, new_id_value) ==
  /\ Refers("customer_data", CUSTOMER_OBJECT)
  /\ selected_place \in DOMAIN customer_data
  /\ idx \in 0..(Len(customer_data[selected_place]) - 1)
  /\ IF all(<<new_name, new_place, new_id_value>>)
     THEN /\ customer_data' =
               UpdatedDirectory(customer_data, selected_place, idx, new_place,
                                [name |-> new_name, id_type |-> new_id_type,
                                 id_value |-> upper(new_id_value)])
          \* st.success(...) and then st.rerun(): the rerun shows no message
          /\ ui' = Note("edit_customer", "")
     ELSE /\ UNCHANGED customer_data
          /\ ui' = Note("edit_customer", "All fields are required")
  /\ UNCHANGED <<sku_data, vehicle_list, invoice_items, unitvars, sessvars>>

\* f"{code.upper()} {series.upper()} {number}"
vehicle_number(code, series, number) ==
  upper(code) \o " " \o upper(series) \o " " \o number

\* an add that does not look the vehicle up in the list
AddVehicleUnchecked(code, series, number) ==
  /\ Refers("vehicle_list", VEHICLES_OBJECT)
  /\ IF all(<<code, series, number>>)
     THEN /\ Len(vehicle_list) < MaxVehicles
          /\ vehicle_list' = Append(vehicle_list, vehicle_number(code, series, number))
          /\ ui' = Note("add_vehicle",
                        "Vehicle '" \o vehicle_number(code, series, number)
                           \o "' added successfully!")
     ELSE /\ UNCHANGED vehicle_list
          /\ ui' = Note("add_vehicle", "All fields are required")
  /\ UNCHANGED <<sku_data, customer_data, invoice_items, unitvars, sessvars>>

\* "Add Vehicle" submitted
AddVehicle(code, series, number) ==
  /\ Refers("vehicle_list", VEHICLES_OBJECT)
  /\ IF all(<<code, series, number>>)
     THEN IF vehicle_number(code, series, number) \notin Range(vehicle_list)
          THEN /\ Len(vehicle_list) < MaxVehicles
               /\ vehicle_list' =
                    Append(vehicle_list, vehicle_number(code, series, number))
               /\ ui' = Note("add_vehicle",
                             "Vehicle '" \o vehicle_number(code, series, number)
                                \o "' added successfully!")
          ELSE /\ UNCHANGED vehicle_list
               /\ ui' = Note("add_vehicle", "Vehicle already exists")
     ELSE /\ UNCHANGED vehicle_list
          /\ ui' = Note("add_vehicle", "All fields are required")
  /\ UNCHANGED <<sku_data, customer_data, invoice_items, unitvars, sessvars>>

\* "Delete" clicked beside vehicle i (from 0)
DeleteVehicle(i) ==
  /\ Refers("vehicle_list", VEHICLES_OBJECT)
  /\ i \in 0..(Len(vehicle_list) - 1)
  /\ vehicle_list' = Pop(vehicle_list, i)
  /\ ui' = Note("delete_vehicle", "")
  /\ UNCHANGED <<sku_data, customer_data, invoice_items, unitvars, sessvars>>

\* "Update Vehicle" submitted for vehicle idx (from 0)
EditVehicle(idx, new_code, new_series, new_number) ==
  /\ Refers("vehicle_list", VEHICLES_OBJECT)
  /\ idx \in 0..(Len(vehicle_list) - 1)
  /\ IF all(<<new_code, new_series, new_number>>)
     THEN /\ vehicle_list' =
               [vehicle_list EXCEPT ![idx + 1] =
                  vehicle_number(new_code, new_series, new_number)]
          \* st.success(...) and then st.rerun(): the rerun shows no message
          /\ ui' = Note("edit_vehicle", "")
     ELSE /\ UNCHANGED vehicle_list
          /\ ui' = Note("edit_vehicle", "All fields are required")
  /\ UNCHANGED <<sku_data, customer_data, invoice_items, unitvars, sessvars>>

\* A script run in session s that no button started: the page is opened, or
\* the operator turns to it.  main() begins with initialize_session_data().
RunSession(s) ==
  /\ session_state' = [session_state EXCEPT ![s] = initialize_session_data(@)]
  /\ current' = s
  /\ ui' = Note("run", "")
  /\ UNCHANGED <<refdata, invoice_items, unitvars>>

\* "Reload from Files" clicked: data_loaded = False, st.rerun(), and the
\* rerun begins with initialize_session_data()
ReloadFromFiles ==
  /\ Opened(current)
  /\ session_state' =
       [session_state EXCEPT
          ![current] = initialize_session_data(SetState(@, "data_loaded", "False"))]
  /\ ui' = Note("reload", "")
  /\ UNCHANGED <<refdata, invoice_items, unitvars, current>>

\* What is typed into the "Add Customer" form (name, place, ID number): a
\* complete form, and the forms with one field left empty.
CustomerForms ==
  { <<"Gupta Traders", "kanpur", "09abcde1234f1z5">>,
    <<"", "kanpur", "09abcde1234f1z5">>,
    <<"Gupta Traders", "", "09abcde1234f1z5">>,
    <<"Gupta Traders", "kanpur", "">> }
IdTypes == {"GSTN"}

\* What "Update Customer" is submitted with for a customer of a place: the
\* form as it was filled in, another place, and one field cleared.
EditCustomerForms(place, customer) ==
  { <<customer.name, place, customer.id_value>>,
    <<customer.name, "Kanpur", customer.id_value>>,
    <<"", place, customer.id_value>>,
    <<customer.name, "", customer.id_value>>,
    <<customer.name, place, "">> }

\* What is typed into the vehicle forms (code, series, number): two
\* vehicles, and the forms with one field left empty.
VehicleForms ==
  { <<"up78", "jt", "9555">>, <<"up78", "jt", "1234">>,
    <<"", "jt", "9555">>, <<"up78", "", "9555">>, <<"up78", "jt", "">> }

\* the reference-data pages and the sidebar, in two sessions
NextData ==
  \/ \E s \in Sessions : RunSession(s)
  \/ ReloadFromFiles
  \/ \E f \in CustomerForms, t \in IdTypes : AddCustomer(f[1], f[2], t, f[3])
  \/ \E p \in DOMAIN customer_data :
       \E i \in 0..(Len(customer_data[p]) - 1) : DeleteCustomer(p, i)
  \/ \E p \in DOMAIN customer_data :
       \E i \in 0..(Len(customer_data[p]) - 1) :
          \E f \in EditCustomerForms(p, customer_data[p][i + 1]) :
             EditCustomer(p, i, f[1], f[2], customer_data[p][i + 1].id_type, f[3])
  \/ \E f \in VehicleForms : AddVehicle(f[1], f[2], f[3])
  \/ \E i \in 0..(Len(vehicle_list) - 1) : DeleteVehicle(i)
  \/ \E i \in 0..(Len(vehicle_list) - 1) :
       \E f \in VehicleForms : EditVehicle(i, f[1], f[2], f[3])
  \/ \E f \in AddSkuForms :
       /\ Refers("sku_data", SKU_OBJECT)
       /\ AddSKU(f.item_name, f.hsn_code, f.cgst_rate, f.sgst_rate, f.weights_input)
  \/ \E n \in EditedSkus :
       /\ Refers("sku_data", SKU_OBJECT)
       /\ DeleteSKU(n)
  \/ \E k \in EditedSkus \cap DOMAIN sku_data :
       \E n \in NewSkuNames \cup TakenSkuNames \cup {k} :
          /\ Refers("sku_data", SKU_OBJECT)
          /\ EditSKU(k, n, sku_data[k].hsn, sku_data[k].cgst, sku_data[k].sgst,
                     joined(sku_data[k].weights))

SpecData == Init /\ [][NextData]_vars

(***************************************************************************)
(* Properties.                                                             *)
(* Money is compared as the program holds it: as floats, with the          *)
(* rounding of every float operation.                                      *)
(***************************************************************************)
\* items_list[1][field] + ... + items_list[k][field], added left to right
\* from 0 as Python's sum() adds
RECURSIVE FieldSum(_, _, _)
FieldSum(items_list, field, k) ==
  IF k = 0 THEN FZero
  ELSE FAdd(FieldSum(items_list, field, k - 1), items_list[k][field])

\* C1: for every item list, the empty one included, recalculate_totals
\* returns amount = the sum of the items' amount fields, tax = the sum of
\* their tax fields and grand_total = amount + tax; for the empty list all
\* three are 0.
C1_TotalsAreSums ==
  fn = "recalculate_totals" =>
    \A i \in 1..Len(rets) :
       /\ rets[i].amount = FieldSum(arg, "amount", Len(arg))
       /\ rets[i].tax = FieldSum(arg, "tax", Len(arg))
       /\ rets[i].grand_total = FAdd(rets[i].amount, rets[i].tax)
       /\ arg = <<>> =>
            /\ rets[i].amount = FZero
            /\ rets[i].tax = FZero
            /\ rets[i].grand_total = FZero

\* recalculate_totals has returned the totals of a list of several items
C1_Witness ==
  /\ fn = "recalculate_totals"
  /\ Len(arg) >= 2
  /\ rets # <<>>
  /\ rets[1].amount # FZero
  /\ rets[1].tax # FZero

\* the three lines of the end-to-end scenario are the in-progress list
ScenarioAdded ==
  /\ Len(invoice_items) = 3
  /\ \A i \in 1..3 :
        /\ invoice_items[i].qty = <<2, 1, 5>>[i]
        /\ invoice_items[i].rate = <<D(10000, 2), D(50000, 2), D(2000, 2)>>[i]
        /\ invoice_items[i].cgst = <<D(25, 3), D(9, 2), D(9, 2)>>[i]
        /\ invoice_items[i].sgst = <<D(25, 3), D(9, 2), D(9, 2)>>[i]

\* C2: adding (qty 2, rate 100.00, 0.025 + 0.025), (qty 1, rate 500.00,
\* 0.09 + 0.09) and (qty 5, rate 20.00, 0.09 + 0.09) through the add-item
\* step gives amounts 200.00, 500.00, 100.00, taxes 10.00, 90.00, 18.00 and
\* item totals 210.00, 590.00, 118.00, and the totals computed from them are
\* amount 800.00, tax 118.00, grand_total 918.00.
C2_Scenario ==
  ScenarioAdded =>
    /\ \A i \in 1..3 :
          /\ invoice_items[i].amount = <<D(20000, 2), D(50000, 2), D(10000, 2)>>[i]
          /\ invoice_items[i].tax = <<D(1000, 2), D(9000, 2), D(1800, 2)>>[i]
          /\ invoice_items[i].total = <<D(21000, 2), D(59000, 2), D(11800, 2)>>[i]
    /\ ui.totals # <<>> =>
          ui.totals[1] = [amount |-> D(80000, 2), tax |-> D(11800, 2),
                          grand_total |-> D(91800, 2)]

\* the scenario's invoice has been generated and its totals are shown
C2_Witness ==
  /\ ScenarioAdded
  /\ ui.trigger = "generate"
  /\ ui.totals # <<>>

\* C3: in every reachable state of the session, after any add-item,
\* remove-item and reference-data operations, every item of the
\* in-progress list has amount = rate * qty, tax = amount * (cgst + sgst)
\* and total = amount + tax.
C3_ItemsDerived ==
  \A i \in 1..Len(invoice_items) :
     LET item == invoice_items[i]
     IN  /\ item.amount = FMul(item.rate, FFromInt(item.qty))
         /\ item.tax = FMul(item.amount, FAdd(item.cgst, item.sgst))
         /\ item.total = FAdd(item.amount, item.tax)

\* a SKU was edited after one of its lines was added: the list holds a line
\* whose rates the SKU no longer has
C3_Witness ==
  /\ ui.trigger = "edit_sku"
  /\ "Tomato Sauce" \in DOMAIN sku_data
  /\ Len(invoice_items) >= 2
  /\ \E i \in 1..Len(invoice_items) :
        /\ invoice_items[i].name = "Tomato Sauce (4.5 Kg)"
        /\ invoice_items[i].cgst # sku_data["Tomato Sauce"].cgst

\* item with its sequence number left out
Unnumbered(item) == [k \in DOMAIN item \ {"sn"} |-> item[k]]

\* this step removed the line the operator selected
Removed ==
  /\ ui'.trigger = "remove_item"
  /\ ui'.item_to_remove # NoSelection

\* C4: the item at position i (1-based) of the in-progress list has
\* sequence number i, and removing the item at any index of an n-item list
\* leaves the other n-1 items in their original relative order, renumbered
\* 1..n-1 (removing index 2 of a 4-item list gives 1, 2, 3).
C4_SequenceNumbers ==
  /\ [](\A i \in 1..Len(invoice_items) : invoice_items[i].sn = i)
  /\ [][Removed =>
          LET k == ui'.item_to_remove.number
              n == Len(invoice_items)
          IN  /\ Len(invoice_items') = n - 1
              /\ \A j \in 1..(n - 1) :
                    /\ invoice_items'[j].sn = j
                    /\ Unnumbered(invoice_items'[j]) =
                         Unnumbered(invoice_items[IF j < k THEN j ELSE j + 1])
              /\ n = 4 =>
                    [j \in 1..3 |-> invoice_items'[j].sn] = <<1, 2, 3>>]_vars

\* the second line of a four-line list has just been removed
C4_Witness ==
  /\ ui.trigger = "remove_item"
  /\ ui.item_to_remove.number = 2
  /\ Len(invoice_items) = 3

\* C5: calling recalculate_totals twice on an unchanged item list gives
\* identical totals, and a call leaves the list and every field of every
\* item as they were.
C5_Idempotent ==
  /\ []((fn = "recalculate_totals" /\ Len(rets) = 2) => rets[1] = rets[2])
  /\ [][fn = "recalculate_totals" => arg' = arg]_vars

\* recalculate_totals has been called twice on a list of several items
C5_Witness ==
  /\ fn = "recalculate_totals"
  /\ Len(arg) >= 2
  /\ Len(rets) = 2

\* h hundredths is a nearest number of hundredths to the float x < 2^52:
\* 2h - 1 <= 200 x <= 2h + 1
NearestHundredths(x, h) ==
  \/ x = FZero /\ h = 0
  \/ /\ x # FZero
     /\ x.e < 0
     /\ ~BLess(BShl(BFromInt(2 * h + 1), 0 - x.e), BMulSmall(x.m, 200))
     /\ h = 0 \/ ~BLess(BMulSmall(x.m, 200), BShl(BFromInt(2 * h - 1), 0 - x.e))

\* the largest percentage, and number of hundredths of a percent, of a rate
MaxPercent == (MaxRateMilli \div 10) + 1

\* C6: format_tax_percentage multiplies the rate by 100 and returns
\* "<int>%" when the product is a whole number, otherwise the product with
\* exactly two decimal places followed by "%"; 0.025 gives "2.50%", 0.09
\* gives "9%", 0.10 gives "10%" and 0.0333 gives "3.33%".
C6_Percentage ==
  (fn = "format_tax_percentage" /\ rets # <<>>) =>
    LET product == FMul(arg, FFromInt(100))
        whole   == \E n \in 0..MaxPercent : product = FFromInt(n)
    IN  /\ whole =>
              \E n \in 0..MaxPercent :
                 /\ product = FFromInt(n)
                 /\ rets[1] = ToString(n) \o "%"
        /\ ~whole =>
              \E h \in 0..(100 * MaxPercent) :
                 /\ rets[1] = ToString(h \div 100) \o "."
                                \o (IF h % 100 < 10 THEN "0" ELSE "")
                                \o ToString(h % 100) \o "%"
                 /\ NearestHundredths(product, h)
        /\ arg = D(25, 3) => rets[1] = "2.50%"
        /\ arg = D(9, 2) => rets[1] = "9%"
        /\ arg = D(10, 2) => rets[1] = "10%"
        /\ arg = D(333, 4) => rets[1] = "3.33%"

\* a rate whose percentage is not whole has been formatted
C6_Witness ==
  /\ fn = "format_tax_percentage"
  /\ arg = D(25, 3)
  /\ rets = <<"2.50%">>

\* the invoice record has every key generate_pdf reads
Complete(invoice_data) ==
  /\ billing_missing(invoice_data) = None
  /\ "items" \in DOMAIN invoice_data
  /\ footer_missing(invoice_data) = None

\* the blocks of a finished document, in the order they are to be drawn
Document ==
  << <<"draw_header", "Original Copy">>, <<"draw_billing_meta", "">>,
     <<"draw_items_table", "">>, <<"draw_footer", "">>,
     <<"dashed line", "">>,
     <<"draw_header", "Duplicate Copy">>, <<"draw_billing_meta", "">>,
     <<"draw_items_table", "">>, <<"draw_footer", "">>,
     <<"showPage", "">>, <<"save", "">> >>

\* C7: for every number of line items, counts whose table overflows the
\* half page included, generate_pdf with complete invoice data does not
\* fail and draws exactly two copies on exactly one page, "Original Copy",
\* the dashed divider, "Duplicate Copy" in that order, then ends the page
\* once, saves, and returns the output path.
C7_TwoCopiesOnePage ==
  (fn = "generate_pdf" /\ env = "none" /\ Complete(arg)) =>
    /\ pdf.pc # "raised"
    /\ Len(pdf.c) <= Len(Document)
    /\ \A i \in 1..Len(pdf.c) :
          <<pdf.c[i].block, pdf.c[i].label>> = Document[i]
    /\ pdf.pc = "returned" =>
          /\ Len(pdf.c) = Len(Document)
          /\ pdf.pages = 1
          /\ pdf.saved = 1
          /\ pdf.ret = TmpName

\* generate_pdf has returned from an invoice whose first table runs below
\* the middle of the page
C7_Witness ==
  /\ fn = "generate_pdf"
  /\ env = "none"
  /\ Complete(arg)
  /\ pdf.pc = "returned"
  /\ pdf.c[3].block = "draw_items_table"
  /\ TableBottom(pdf.c[3].y, arg.items) < mid_y

\* the buyer's identifier value is missing: absent, or present but empty
BuyerIdMissing(invoice_data) ==
  \/ "id_value" \notin DOMAIN invoice_data.buyer
  \/ invoice_data.buyer.id_value = ""

\* C8: rendering an invoice record whose buyer identifier value is missing,
\* absent from the record or present but empty, fails with an error that
\* names the field and emits no document with a blank field.
C8_MissingBuyerIdFails ==
  (fn = "generate_pdf" /\ env = "none" /\ BuyerIdMissing(arg) /\ PdfDone(pdf)) =>
    /\ pdf.pc = "raised"
    /\ pdf.err.arg = "id_value"
    /\ pdf.saved = 0

\* the run of "Generate PDF Invoice" that left this screen failed
GenerateFailed(screen) ==
  /\ screen.trigger = "generate"
  /\ screen.msg \notin {"Invoice #" \o ToString(no) \o " generated successfully!" :
                          no \in InvoiceNumbers}

\* the page shows "Generate PDF Invoice" and a click on it runs the block
CanGenerate ==
  /\ invoice_items # <<>>
  /\ \E p \in places :
        /\ PageRendered(p)
        /\ VehicleChoices # {}

\* C9: when "Generate PDF Invoice" fails at any step, the in-progress list
\* and the reference data are exactly as they were before it, the session
\* continues, and the operator can retry.
C9_FailedGenerateKeepsState ==
  /\ [][GenerateFailed(ui') =>
          /\ invoice_items' = invoice_items
          /\ refdata' = refdata]_vars
  /\ [](GenerateFailed(ui) => CanGenerate)

\* a generation has failed with lines in the list
C9_Witness ==
  /\ GenerateFailed(ui)
  /\ Len(invoice_items) >= 2

\* C10: after a successful "Generate PDF Invoice", pressing "Clear Invoice
\* Items" leaves the in-progress item list empty.
C10_ClearEmptiesList ==
  ui.trigger = "clear" => invoice_items = <<>>

\* C11: once an item is in the in-progress list, no operation other than
\* the renumbering after a removal changes it, and the renumbering changes
\* only its sequence number: name, qty, hsn, rate, amount, cgst, sgst, tax
\* and total stay as created, also when its SKU is edited or deleted later
\* and when totals are computed or a PDF is generated.
C11_ItemsFrame ==
  [][/\ Removed =>
          \A j \in 1..Len(invoice_items') :
             \E i \in {j, j + 1} :
                /\ i <= Len(invoice_items)
                /\ Unnumbered(invoice_items'[j]) = Unnumbered(invoice_items[i])
     /\ ~Removed =>
          \A i \in 1..Len(invoice_items) :
             i <= Len(invoice_items') => invoice_items'[i] = invoice_items[i]
     /\ ui'.trigger \in {"add_sku", "edit_sku", "delete_sku", "generate"} =>
          invoice_items' = invoice_items]_vars

\* the SKU of a line in the list has been deleted
C11_Witness ==
  /\ ui.trigger = "delete_sku"
  /\ "Tomato Sauce" \notin DOMAIN sku_data
  /\ \E i \in 1..Len(invoice_items) :
        invoice_items[i].name = "Tomato Sauce (4.5 Kg)"

\* C12: building a line item, computing totals and rendering leave the
\* product catalog, the customer directory and the vehicle list unchanged,
\* and the buyer record placed in the invoice record, which is the
\* directory's own record, is not modified.
C12_ReferenceDataFrame ==
  [][ui'.trigger \in {"add_item", "generate"} =>
       /\ sku_data' = sku_data
       /\ customer_data' = customer_data
       /\ vehicle_list' = vehicle_list]_vars

\* an invoice of several lines has been generated for a customer of the
\* directory
C12_Witness ==
  /\ ui.trigger = "generate"
  /\ ui.download_button
  /\ Len(invoice_items) = 2
  /\ customer_data = DEFAULT_CUSTOMER_DATA

\* the three data sets as the process started with them
BuiltInDefaults ==
  << DEFAULT_SKU_DATA, DEFAULT_CUSTOMER_DATA, DEFAULT_VEHICLE_DATA.vehicles >>

\* C13: once "Reload from Files" has run, whatever was added, edited or
\* deleted before it, the session's SKUs, customers and vehicles are the
\* built-in defaults the process started with.
C13_ReloadRestoresDefaults ==
  ui.trigger = "reload" => View(current) = BuiltInDefaults

\* C14: an "Add Vehicle" whose identifier (upper-cased code, upper-cased
\* series, number) is already in the list shows "Vehicle already exists" and
\* leaves the list as it was.
C14_DuplicateVehicleRejected ==
  [][\A f \in VehicleForms :
       (/\ AddVehicle(f[1], f[2], f[3])
        /\ all(f)
        /\ \E i \in 1..Len(vehicle_list) :
              vehicle_list[i] = upper(f[1]) \o " " \o upper(f[2]) \o " " \o f[3])
       => /\ ui'.msg = "Vehicle already exists"
          /\ vehicle_list' = vehicle_list]_vars

\* a vehicle already listed was submitted again
C14_Witness ==
  /\ ui.trigger = "add_vehicle"
  /\ ui.msg = "Vehicle already exists"
  /\ "UP78 JT 9555" \in Range(vehicle_list)

\* the float 1.0, and the largest float below it
FOne == FFromInt(1)
FBelowOne == FSub(FOne, FRound(<<1>>, 0 - MantBits))

\* the boundaries draw_items_table computed start at x, never decrease and
\* end at right = x + INNER_W
BoundariesSpanTable ==
  /\ Len(rets[1].col_x) = Len(COLS) + 1
  /\ rets[1].col_x[1] = arg
  /\ \A i \in 1..Len(COLS) : ~FLess(rets[1].col_x[i + 1], rets[1].col_x[i])
  /\ rets[1].col_x[Len(COLS) + 1] = rets[1].right

\* C15 as stated: for the ten column weights the normalized weights sum to
\* 1, and the column boundaries of draw_items_table start at x, never
\* decrease and end at x + INNER_W.
C15_WeightsSumToOne ==
  (fn = "draw_items_table" /\ rets # <<>>) =>
     /\ FSum(width_frac, FZero) = FOne
     /\ BoundariesSpanTable

\* C15, amended: the normalized weights sum to 1 only to within one unit in
\* the last place (the sum the floats give is the largest float below 1);
\* the column boundaries start at x, never decrease, and the last boundary
\* is exactly the float x + INNER_W.
C15_ColumnBoundaries ==
  (fn = "draw_items_table" /\ rets # <<>>) =>
     /\ FSum(width_frac, FZero) \in {FBelowOne, FOne}
     /\ BoundariesSpanTable

\* the table of generate_pdf, drawn at MARGIN_X, has its eleven boundaries
C15_Witness ==
  /\ fn = "draw_items_table"
  /\ arg = FloatMARGIN_X
  /\ rets # <<>>
  /\ Len(rets[1].col_x) = 11
  /\ FLess(rets[1].col_x[1], rets[1].col_x[11])

\* C16: apply_price_adjustments returns the item list it was given, with no
\* item added, removed, reordered or changed, totals equal to
\* recalculate_totals of that list, and an empty auxiliary list.
C16_AdjustmentsPassThrough ==
  [][(fn = "apply_price_adjustments" /\ rets = <<>> /\ rets' # <<>>) =>
       /\ rets'[1][1] = arg
       /\ arg' = arg
       /\ rets'[1][2] = recalculate_totals(arg).ret
       /\ rets'[1][2].amount = FieldSum(arg, "amount", Len(arg))
       /\ rets'[1][3] = <<>>]_vars

\* a list of three lines went through apply_price_adjustments
C16_Witness ==
  /\ fn = "apply_price_adjustments"
  /\ rets # <<>>
  /\ Len(rets[1][1]) = MaxListLen
  /\ rets[1][1][1] # rets[1][1][2]

\* C17: with two sessions in the process, an add, edit or delete of a SKU,
\* customer or vehicle in one session never changes the catalog, customer
\* directory or vehicle list the other session sees.
C17_SessionsIsolated ==
  [][\A s \in Sessions :
       (s # current /\ current' = current /\ Opened(s)) => View(s)' = View(s)]_vars

\* a form submitted with a required field empty: the message it shows, and
\* nothing else changes
Rejected(msg) ==
  /\ ui'.msg = msg
  /\ refdata' = refdata
  /\ session_state' = session_state
  /\ current' = current
  /\ View(current)' = View(current)

\* C18: an add or edit form for a customer, SKU or vehicle submitted with a
\* required field empty reports an error, changes none of the catalog, the
\* customer directory and the vehicle list, and leaves the session as it
\* was for the next operation.
C18_EmptyFieldRejected ==
  [][/\ ui'.trigger = "add_customer" =>
          \A f \in CustomerForms, t \in IdTypes :
             (~all(f) /\ AddCustomer(f[1], f[2], t, f[3]))
                => Rejected("All fields are required")
     /\ ui'.trigger = "edit_customer" =>
          \A p \in DOMAIN customer_data :
             \A i \in 0..(Len(customer_data[p]) - 1) :
                \A f \in EditCustomerForms(p, customer_data[p][i + 1]) :
                   (/\ ~all(f)
                    /\ EditCustomer(p, i, f[1], f[2],
                                    customer_data[p][i + 1].id_type, f[3]))
                      => Rejected("All fields are required")
     /\ ui'.trigger = "add_vehicle" =>
          \A f \in VehicleForms :
             (~all(f) /\ AddVehicle(f[1], f[2], f[3]))
                => Rejected("All fields are required")
     /\ ui'.trigger = "edit_vehicle" =>
          \A i \in 0..(Len(vehicle_list) - 1) :
             \A f \in VehicleForms :
                (~all(f) /\ EditVehicle(i, f[1], f[2], f[3]))
                   => Rejected("All fields are required")
     /\ ui'.trigger = "add_sku" =>
          \A f \in AddSkuForms :
             (/\ f.item_name = "" \/ f.hsn_code = ""
              /\ AddSKU(f.item_name, f.hsn_code, f.cgst_rate, f.sgst_rate,
                        f.weights_input))
                => Rejected("Item name and HSN code are required")
     /\ ui'.trigger = "edit_sku" =>
          \A k \in EditedSkus \cap DOMAIN sku_data :
             \A n \in NewSkuNames \cup TakenSkuNames \cup {k} :
                (/\ n = ""
                 /\ EditSKU(k, n, sku_data[k].hsn, sku_data[k].cgst, sku_data[k].sgst,
                            joined(sku_data[k].weights)))
                   => Rejected("Item name and HSN code are required")]_vars

\* an "Update Customer" without a name was turned down while the directory
\* held a second customer
C18_Witness ==
  /\ ui.trigger = "edit_customer"
  /\ ui.msg = "All fields are required"
  /\ total_customers(customer_data) = 2

\* C19: whatever vehicles were added, edited and deleted, starting from the
\* empty default list, no vehicle identifier is in the list twice.
C19_NoDuplicateVehicles ==
  \A i, j \in 1..Len(vehicle_list) : i # j => vehicle_list[i] # vehicle_list[j]

\* C20: whatever customers were added, edited and deleted, every place of
\* supply the directory lists has at least one customer, so the Generate
\* Invoice page offers a customer for every place it offers.
C20_EveryPlaceHasCustomer ==
  \A place_of_supply \in places : customers(place_of_supply) # {}

\* C21: an "Update SKU" that succeeds keeps the number of catalog entries
\* and changes no entry other than the selected one, whatever new name was
\* entered, a name another SKU has included.
C21_EditSkuKeepsOthers ==
  [][ui'.trigger = "edit_sku" =>
       \A k \in EditedSkus \cap DOMAIN sku_data :
          \A n \in NewSkuNames \cup TakenSkuNames \cup {k} :
             (/\ n # ""
              /\ EditSKU(k, n, sku_data[k].hsn, sku_data[k].cgst, sku_data[k].sgst,
                         joined(sku_data[k].weights)))
                => /\ Cardinality(DOMAIN sku_data') = Cardinality(DOMAIN sku_data)
                   /\ \A x \in DOMAIN sku_data \ {k} :
                         /\ x \in DOMAIN sku_data'
                         /\ sku_data'[x] = sku_data[x]]_vars
====
